---- MODULE Spec2Model ----
(***************************************************************************)
(* A model of src/src/main.py: the fetch-parse-normalize-cache pipeline    *)
(* behind the /status and /metrics endpoints.                              *)
(*                                                                         *)
(* Representation.                                                         *)
(*  - A Python float is an exact rational <<n, d>> (d > 0, lowest terms).  *)
(*    Byte counts are multiples of BytesPerUnit and are written as the     *)
(*    number of such units, so that terabyte-sized values fit TLC's        *)
(*    integers; every division and multiplication of the code is carried   *)
(*    out on the rational.                                                 *)
(*  - The upstream body is a sequence of tag blocks <tag>content</..>;     *)
(*    a content is a sequence of tokens: a digit group (k = "d", with its  *)
(*    value n), a comma, a ">" character, or other text.  Contents hold no *)
(*    "<" and no newline.                                                  *)
(*  - A Python dict is a function whose DOMAIN is its key set.             *)
(*  - An exception is a record [type, msg].                                *)
(***************************************************************************)
EXTENDS Integers, Sequences, FiniteSets, TLC

\* ------------------------------------------------------------------ bounds
NumThreads == 2
MaxCalls == 2
MaxClock == 91

\* --------------------------------------------------------------- constants
CACHE_DURATION == 60
REQUEST_TIMEOUT == 30
BYTES_TO_GB == 1024 * 1024 * 1024
GB_TO_TB == 1024
TB_THRESHOLD == 1000
RESOURCE_TYPES == <<"hdd", "bw", "mem">>
INFO_TYPES == <<"hostname", "ipaddress">>

\* bytes per modelled unit of a byte count
BytesPerUnit == 1024 * 1024

Range(s) == {s[i] : i \in DOMAIN s}

\* ------------------------------------------------------------------ floats
RECURSIVE GCD(_, _)
GCD(a, b) == IF b = 0 THEN a ELSE GCD(b, a % b)

Norm(r) ==
    IF r[1] = 0 THEN <<0, 1>>
    ELSE LET g == GCD(r[1], r[2]) IN <<r[1] \div g, r[2] \div g>>

\* r / k and r * k for a float r and a positive integer k
RDiv(r, k) == LET g == GCD(r[1], k) IN Norm(<<r[1] \div g, r[2] * (k \div g)>>)
RMul(r, k) == LET g == GCD(k, r[2]) IN Norm(<<r[1] * (k \div g), r[2] \div g>>)
\* a / b for floats a and b, b # 0
RQuot(a, b) == Norm(<<a[1] * b[2], a[2] * b[1]>>)
RGeq(r, k) == r[1] >= k * r[2]
RZero == <<0, 1>>

\* ------------------------------------------------------------- exceptions
Exc(type, msg) == [type |-> type, msg |-> msg]
Ok(v) == [ok |-> TRUE, val |-> v]
Raise(e) == [ok |-> FALSE, err |-> e]

\* ------------------------------------------------------------------ tokens
D(n) == [k |-> "d", n |-> n]
Sym(c) == [k |-> c, n |-> 0]
Comma == Sym(",")

\* ------------------------------------------------- convert_bytes_to_readable
\* a conversion that changes unit at 1024 GB
MutConvertAt1024(value) ==
    LET gb_value == RDiv(value, BYTES_TO_GB \div BytesPerUnit)
    IN  IF RGeq(gb_value, GB_TO_TB)
        THEN [display |-> RDiv(gb_value, GB_TO_TB), unit |-> "TB"]
        ELSE [display |-> gb_value, unit |-> "GB"]

\* value: the byte count as a float, in units of BytesPerUnit bytes
convert_bytes_to_readable(value) ==
    LET gb_value == RDiv(value, BYTES_TO_GB \div BytesPerUnit)
    IN  IF RGeq(gb_value, TB_THRESHOLD)
        THEN [display |-> RDiv(gb_value, GB_TO_TB), unit |-> "TB"]
        ELSE [display |-> gb_value, unit |-> "GB"]

\* ------------------------------------------------------------ INNER_PATTERN
\* <.*?>(\d*?),(\d*?),(\d*?),(\d*?)</.*?> matched at the start of a block
CommaPos(s) == {i \in 1..Len(s) : s[i].k = ","}
GroupShape(s) ==
    /\ \A i \in 1..Len(s) : s[i].k \in {"d", ","}
    /\ Cardinality(CommaPos(s)) = 3
\* the lazy <.*?> ends at the block's opening tag or at a later ">"
InnerStarts(c) ==
    {p \in 0..Len(c) : /\ (p = 0 \/ c[p].k = ">")
                       /\ GroupShape(SubSeq(c, p + 1, Len(c)))}
SetMin(S) == CHOOSE x \in S : \A y \in S : x <= y
SetMax(S) == CHOOSE x \in S : \A y \in S : x >= y
InnerGroups(s) ==
    LET cs == CommaPos(s)
        c1 == SetMin(cs)
        c3 == SetMax(cs)
        c2 == CHOOSE x \in cs : x # c1 /\ x # c3
    IN  [total |-> SubSeq(s, 1, c1 - 1),
         used  |-> SubSeq(s, c1 + 1, c2 - 1),
         free  |-> SubSeq(s, c2 + 1, c3 - 1),
         per   |-> SubSeq(s, c3 + 1, Len(s))]
\* INNER_PATTERN.match(block).groupdict(); a failed match is None, and
\* None.groupdict() raises AttributeError
InnerMatch(c) ==
    IF InnerStarts(c) = {}
    THEN Raise(Exc("AttributeError", "'NoneType' object has no attribute 'groupdict'"))
    ELSE LET p == SetMin(InnerStarts(c))
         IN  Ok(InnerGroups(SubSeq(c, p + 1, Len(c))))

\* float(s) for a matched group s: a digit string or the empty string
Float(g) ==
    IF Len(g) = 0
    THEN Raise(Exc("ValueError", "could not convert string to float: ''"))
    ELSE Ok(<<g[1].n, 1>>)

\* ---------------------------------------------------- process_resource_data
\* a processor that takes the percentage from the fourth group
MutProcessReported(data) ==
    LET used == Float(data.used)
        total == Float(data.total)
        free == Float(data.free)
    IN  IF ~used.ok THEN used
        ELSE IF ~total.ok THEN total
        ELSE IF ~free.ok THEN free
        ELSE LET per == IF Len(data.per) = 0 THEN RZero ELSE <<data.per[1].n, 1>>
                 t == convert_bytes_to_readable(total.val)
                 u == convert_bytes_to_readable(used.val)
                 f == convert_bytes_to_readable(free.val)
             IN  Ok([per |-> per,
                     total_display |-> t.display, total_mag |-> t.unit,
                     total |-> total.val,
                     used_display |-> u.display, used_mag |-> u.unit,
                     used |-> used.val,
                     free_display |-> f.display, free_mag |-> f.unit,
                     free |-> free.val])

process_resource_data(data) ==
    LET used == Float(data.used)
        total == Float(data.total)
        free == Float(data.free)
    IN  IF ~used.ok THEN used
        ELSE IF ~total.ok THEN total
        ELSE IF (used.val # RZero \/ total.val # RZero) /\ total.val = RZero
        THEN Raise(Exc("ZeroDivisionError", "float division by zero"))
        ELSE IF ~free.ok THEN free
        ELSE LET per == IF used.val # RZero \/ total.val # RZero
                        THEN RMul(RQuot(used.val, total.val), 100)
                        ELSE RZero
                 t == convert_bytes_to_readable(total.val)
                 u == convert_bytes_to_readable(used.val)
                 f == convert_bytes_to_readable(free.val)
             IN  Ok([per |-> per,
                     total_display |-> t.display, total_mag |-> t.unit,
                     total |-> total.val,
                     used_display |-> u.display, used_mag |-> u.unit,
                     used |-> used.val,
                     free_display |-> f.display, free_mag |-> f.unit,
                     free |-> free.val])

\* ------------------------------------------------------------- api_response
EmptyDict == [x \in {} |-> 0]
DictSet(d, key, v) == (key :> v) @@ d

\* one iteration of the loop over OUTER_PATTERN's blocks
ParseBlock(acc, b) ==
    IF b.tag \in Range(RESOURCE_TYPES)
    THEN LET m == InnerMatch(b.content)
         IN  IF ~m.ok THEN m
             ELSE LET p == process_resource_data(m.val)
                  IN  IF ~p.ok THEN p ELSE Ok(DictSet(acc, b.tag, p.val))
    ELSE IF b.tag \in Range(INFO_TYPES)
    THEN Ok(DictSet(acc, b.tag, b.content))
    ELSE Ok(acc)

RECURSIVE ParseBlocks(_, _, _)
ParseBlocks(body, i, acc) ==
    IF i > Len(body) THEN Ok(acc)
    ELSE LET r == ParseBlock(acc, body[i])
         IN  IF ~r.ok THEN r ELSE ParseBlocks(body, i + 1, r.val)

\* the parse of a 2xx response body
api_response(body) == ParseBlocks(body, 1, EmptyDict)

\* raised by api_response for a transport error or a non-2xx status
RequestFailed == Exc("RuntimeError", "API request failed")
\* raised by load_config
ConfigFailed == Exc("RuntimeError", "Failed to load configuration")

\* ------------------------------------------- get_vps_data: payload assembly
KeyError(key) == Exc("KeyError", key)

resource_names == [hdd |-> "storage", bw |-> "bandwidth", mem |-> "memory"]

\* the entry output[name] built for one resource type
ResourceEntry(resource_data) ==
    LET multiplier == IF resource_data.total_mag = "TB" THEN 1024 ELSE 1
    IN  [total |-> RMul(resource_data.total_display, multiplier),
         used  |-> RMul(resource_data.used_display, multiplier),
         free  |-> RMul(resource_data.free_display, multiplier),
         usage |-> resource_data.per]

\* an assembly that leaves out what the response lacks
MutAssemble(response, now) ==
    IF DOMAIN response = {}
    THEN Raise(Exc("RuntimeError", "Empty response from the server"))
    ELSE Ok([k \in {"hostname", "ip", "last_update"}
                    \cup {resource_names[r] : r \in DOMAIN response
                                                    \cap Range(RESOURCE_TYPES)} |->
                IF k = "last_update" THEN now
                ELSE IF k = "hostname" /\ "hostname" \in DOMAIN response
                THEN response["hostname"]
                ELSE IF k = "ip" /\ "ipaddress" \in DOMAIN response
                THEN response["ipaddress"]
                ELSE IF k \in {"hostname", "ip"} THEN <<>>
                ELSE ResourceEntry(
                        response[CHOOSE r \in DOMAIN resource_names :
                                     resource_names[r] = k])])

\* lines 121-159: from the parsed response to the payload, now = time.time()
Assemble(response, now) ==
    IF DOMAIN response = {}
    THEN Raise(Exc("RuntimeError", "Empty response from the server"))
    ELSE IF "hostname" \notin DOMAIN response THEN Raise(KeyError("hostname"))
    ELSE IF "ipaddress" \notin DOMAIN response THEN Raise(KeyError("ipaddress"))
    ELSE IF "hdd" \notin DOMAIN response THEN Raise(KeyError("hdd"))
    ELSE IF "bw" \notin DOMAIN response THEN Raise(KeyError("bw"))
    ELSE IF "mem" \notin DOMAIN response THEN Raise(KeyError("mem"))
    ELSE Ok([hostname |-> response["hostname"],
             ip |-> response["ipaddress"],
             last_update |-> now,
             storage |-> ResourceEntry(response["hdd"]),
             bandwidth |-> ResourceEntry(response["bw"]),
             memory |-> ResourceEntry(response["mem"])])

\* the except clause of get_vps_data
Wrapped(e) == Exc("RuntimeError", <<"Failed to fetch VPS data: ", e.msg>>)

\* ----------------------------------------------------------------- status
\* a handler that answers a failure with the success status
MutStatusLeak(outcome) ==
    [code |-> 200,
     body |-> IF outcome.ok THEN outcome.val ELSE [error |-> outcome.err.msg]]

\* the /status handler applied to the outcome of get_vps_data()
status(outcome) ==
    IF outcome.ok
    THEN [code |-> 200, body |-> outcome.val]
    ELSE [code |-> 500, body |-> [error |-> outcome.err.msg]]

\* ---------------------------------------------------------------- metrics
\* the nine lines appended for one item of data["resources"]
MetricLines(resource_type, resource_data) ==
    LET base_name == <<"vps_", resource_type>>
    IN  << <<"# HELP ", base_name, "_total">>,
           <<"# TYPE ", base_name, "_total gauge">>,
           <<base_name, "_total ", resource_data.total.value>>,
           <<"# HELP ", base_name, "_used">>,
           <<"# TYPE ", base_name, "_used gauge">>,
           <<base_name, "_used ", resource_data.used.value>>,
           <<"# HELP ", base_name, "_percentage_used">>,
           <<"# TYPE ", base_name, "_percentage_used gauge">>,
           <<base_name, "_percentage_used ", resource_data.percentage_used>> >>

\* the /metrics handler applied to the outcome of get_vps_data(); the body of
\* a 200 answer maps each resource of data["resources"] to its lines
metrics(outcome) ==
    IF ~outcome.ok
    THEN [code |-> 500, body |-> <<"# ERROR: ", outcome.err.msg>>]
    ELSE LET data == outcome.val
         IN  IF "resources" \notin DOMAIN data
             THEN [code |-> 500, body |-> <<"# ERROR: ", "'resources'">>]
             ELSE IF \E rt \in DOMAIN data.resources :
                        \/ {"total", "used", "percentage_used"}
                               \ DOMAIN data.resources[rt] # {}
                        \/ "value" \notin DOMAIN data.resources[rt].total
                        \/ "value" \notin DOMAIN data.resources[rt].used
             THEN [code |-> 500, body |-> <<"# ERROR: ", "KeyError">>]
             ELSE [code |-> 200,
                   body |-> [rt \in DOMAIN data.resources |->
                                MetricLines(rt, data.resources[rt])]]

\* ---------------------------------------------------------- upstream bodies
Res(tag, content) == [tag |-> tag, content |-> content]
Four(t, u, f, p) == <<D(t), Comma, D(u), Comma, D(f), Comma, D(p)>>
GiB(g) == g * (BYTES_TO_GB \div BytesPerUnit)

HostA == Res("hostname", <<Sym("h1")>>)
IpA == Res("ipaddress", <<Sym("1.2.3.4")>>)
HddA == Res("hdd", Four(GiB(1), GiB(1) \div 2, GiB(1) \div 2, 50))
BwA == Res("bw", Four(GiB(100), GiB(25), GiB(75), 25))
MemA == Res("mem", Four(0, 0, 0, 0))
\* total and free at or above 1000 GB, used below it
BwMixed == Res("bw", Four(GiB(2048), GiB(500), GiB(1548), 24))

BodyA == <<HddA, HostA, IpA, BwA, MemA>>
BodyMixed == <<HddA, Res("hostname", <<Sym("h2")>>), IpA, BwMixed, MemA>>
BodyIgnored == <<Res("status", <<Sym("online")>>), HddA, HostA, IpA, BwA, MemA>>
\* hdd with an empty fourth group
BodyPerEmpty ==
    <<Res("hdd", <<D(GiB(2)), Comma, D(GiB(1)), Comma, D(GiB(1)), Comma>>),
      HostA, IpA, BwA, MemA>>
\* hdd with text in place of the groups
BodyText == <<Res("hdd", <<Sym("n/a")>>), HostA, IpA, BwA, MemA>>
\* mem with an empty used group
BodyUsedEmpty ==
    <<HddA, HostA, IpA, BwA,
      Res("mem", <<D(GiB(1)), Comma, Comma, D(GiB(1)), Comma, D(0)>>)>>
BodyNoMem == <<HddA, HostA, IpA, BwA>>
BodyEmpty == <<>>
BodyZeroTotal == <<Res("hdd", Four(0, GiB(1), 0, 0)), HostA, IpA, BwA, MemA>>

\* hdd with text and a ">" before four groups
BodyGtPrefix ==
    <<Res("hdd", <<Sym("n/a"), Sym(">")>> \o Four(GiB(4), GiB(1), GiB(3), 25)),
      HostA, IpA, BwA, MemA>>
\* hdd with three groups only
BodyThree ==
    <<Res("hdd", <<D(GiB(1)), Comma, D(GiB(1)), Comma, D(0)>>), HostA, IpA, BwA, MemA>>
BodyNoHost == <<HddA, IpA, BwA, MemA>>
BodyNoIp == <<HddA, HostA, BwA, MemA>>
BodyNoHdd == <<HostA, IpA, BwA, MemA>>
BodyNoBw == <<HddA, HostA, IpA, MemA>>
\* blocks of other tags only
BodyOnlyIgnored == <<Res("status", <<Sym("online")>>), Res("uptime", <<D(7)>>)>>

\* byte counts around the GB/TB threshold, in units of BytesPerUnit
SampleBytes == {0, 1, GiB(999), GiB(1000)}
\* bodies whose hdd block runs over the sample byte counts, each reporting
\* 50 percent
SampleBodies ==
    {<<Res("hdd", Four(total, used, total, 50)), HostA, IpA, BwA, MemA>> :
        total \in SampleBytes, used \in SampleBytes}

\* the 2xx bodies of the concurrent specification
UpstreamBodies == {BodyA, BodyMixed, BodyText}
\* the 2xx bodies of the sequential specification
AllBodies ==
    {BodyA, BodyMixed, BodyIgnored, BodyPerEmpty, BodyText, BodyUsedEmpty,
     BodyNoMem, BodyEmpty, BodyZeroTotal, BodyGtPrefix, BodyThree, BodyNoHost,
     BodyNoIp, BodyNoHdd, BodyNoBw, BodyOnlyIgnored}
        \cup SampleBodies

\* api_response for each of the bodies, computed once
Parsed == [body \in AllBodies |-> api_response(body)]

\* the outcome of lines 120-155 for a 2xx response body
FetchOutcome(body, now) ==
    LET r == Parsed[body]
    IN  IF ~r.ok THEN r ELSE Assemble(r.val, now)

\* ------------------------------------------------------------------- state
Threads == 1..NumThreads
TickSteps == {REQUEST_TIMEOUT, REQUEST_TIMEOUT + 1}
None == [none |-> TRUE]
NoLock == 0

VARIABLES
    clock,          \* time.time(), in seconds
    ncalls,         \* number of handler invocations so far
    cached_data,    \* the global cached_data: None or a payload
    last_update,    \* the global last_update
    cache_lock,     \* the holder of cache_lock, or NoLock
    pc,             \* per request thread: where it is in its handler
    current_time,   \* per thread: get_vps_data's local current_time
    posts,          \* per thread: requests.post calls of the current call
    post_time,      \* per thread: when its pending requests.post was issued
    result,         \* per thread: get_vps_data's local output, and after
                    \* its return what it returned or raised
    first_wave,     \* per thread: its call began before any call returned
    failed_since    \* a fetch has failed since the cache entry was stored

vars == <<clock, ncalls, cached_data, last_update, cache_lock, pc,
          current_time, posts, post_time, result, first_wave, failed_since>>

IsSnapshot(x) == "hostname" \in DOMAIN x
IsError(x) == "msg" \in DOMAIN x

Init ==
    /\ clock = 0
    /\ ncalls = 0
    /\ cached_data = None
    /\ last_update = 0
    /\ cache_lock = NoLock
    /\ pc = [t \in Threads |-> "idle"]
    /\ current_time = [t \in Threads |-> 0]
    /\ posts = [t \in Threads |-> 0]
    /\ post_time = [t \in Threads |-> 0]
    /\ result = [t \in Threads |-> None]
    /\ first_wave = [t \in Threads |-> FALSE]
    /\ failed_since = FALSE

\* no call has returned yet
NoneReturned == ncalls = Cardinality({u \in Threads : pc[u] \notin {"idle", "done"}})

\* a request arrives: its handler (status or metrics) calls get_vps_data,
\* which reads the clock
Call(t) ==
    /\ pc[t] \in {"idle", "done"}
    /\ ncalls < MaxCalls
    /\ ncalls' = ncalls + 1
    /\ current_time' = [current_time EXCEPT ![t] = clock]
    /\ first_wave' = [first_wave EXCEPT ![t] = NoneReturned]
    /\ pc' = [pc EXCEPT ![t] = "waiting"]
    /\ posts' = [posts EXCEPT ![t] = 0]
    /\ result' = [result EXCEPT ![t] = None]
    /\ UNCHANGED <<clock, cached_data, last_update, cache_lock, post_time,
                   failed_since>>

\* line 106 without the age test: any entry counts as fresh
MutFresh(t) == IsSnapshot(cached_data)

\* line 106 with a window shorter by the request timeout
MutFreshShort(t) ==
    /\ IsSnapshot(cached_data)
    /\ current_time[t] - last_update < CACHE_DURATION - REQUEST_TIMEOUT

\* line 106
Fresh(t) ==
    /\ IsSnapshot(cached_data)
    /\ current_time[t] - last_update < CACHE_DURATION

\* get_vps_data returns or raises; its locals are gone
Return(t, outcome) ==
    /\ result' = [result EXCEPT ![t] = IF outcome.ok THEN outcome.val ELSE outcome.err]
    /\ pc' = [pc EXCEPT ![t] = "done"]
    /\ current_time' = [current_time EXCEPT ![t] = 0]
    /\ post_time' = [post_time EXCEPT ![t] = 0]

\* the freshness test and the return without taking cache_lock
MutCacheHitNoLock(t) ==
    /\ pc[t] = "waiting"
    /\ Fresh(t)
    /\ Return(t, Ok(cached_data))
    /\ UNCHANGED <<clock, ncalls, cached_data, last_update, cache_lock,
                   posts, first_wave, failed_since>>

\* a hit that restarts the freshness window
MutCacheHitTouch(t) ==
    /\ pc[t] = "waiting"
    /\ cache_lock = NoLock
    /\ Fresh(t)
    /\ last_update' = current_time[t]
    /\ Return(t, Ok(cached_data))
    /\ UNCHANGED <<clock, ncalls, cached_data, cache_lock,
                   posts, first_wave, failed_since>>

\* with cache_lock: the entry is fresh and is returned
CacheHit(t) ==
    /\ pc[t] = "waiting"
    /\ cache_lock = NoLock
    /\ Fresh(t)
    /\ Return(t, Ok(cached_data))
    /\ UNCHANGED <<clock, ncalls, cached_data, last_update, cache_lock,
                   posts, first_wave, failed_since>>

\* the check and the fetch without taking cache_lock
MutCacheMiss(t) ==
    /\ pc[t] = "waiting"
    /\ ~Fresh(t)
    /\ cache_lock' = t
    /\ pc' = [pc EXCEPT ![t] = "fetching"]
    /\ UNCHANGED <<clock, ncalls, cached_data, last_update,
                   current_time, posts, post_time, result, first_wave,
                   failed_since>>

\* with cache_lock: the entry is missing or old, the thread goes on to fetch
CacheMiss(t) ==
    /\ pc[t] = "waiting"
    /\ cache_lock = NoLock
    /\ ~Fresh(t)
    /\ cache_lock' = t
    /\ pc' = [pc EXCEPT ![t] = "fetching"]
    /\ UNCHANGED <<clock, ncalls, cached_data, last_update,
                   current_time, posts, post_time, result, first_wave,
                   failed_since>>

\* an exception handler that also drops the cached entry
MutFetchFailed(t, e) ==
    /\ Return(t, Raise(Wrapped(e)))
    /\ cache_lock' = NoLock
    /\ failed_since' = TRUE
    /\ cached_data' = None
    /\ last_update' = 0

\* an exception that leaves get_vps_data with cache_lock still held
MutFetchFailedHolds(t, e) ==
    /\ Return(t, Raise(Wrapped(e)))
    /\ failed_since' = TRUE
    /\ UNCHANGED <<cached_data, last_update, cache_lock>>

\* an exception inside the try block: the cache globals are not assigned
FetchFailed(t, e) ==
    /\ Return(t, Raise(Wrapped(e)))
    /\ cache_lock' = NoLock
    /\ failed_since' = TRUE
    /\ UNCHANGED <<cached_data, last_update>>

\* line 110 raises
LoadConfigFail(t) ==
    /\ pc[t] = "fetching"
    /\ FetchFailed(t, ConfigFailed)
    /\ UNCHANGED <<clock, ncalls, posts, first_wave>>

\* line 61: the request is sent
Post(t) ==
    /\ pc[t] = "fetching"
    /\ pc' = [pc EXCEPT ![t] = "inflight"]
    /\ posts' = [posts EXCEPT ![t] = @ + 1]
    /\ post_time' = [post_time EXCEPT ![t] = clock]
    /\ UNCHANGED <<clock, ncalls, cached_data, last_update, cache_lock,
                   current_time, result, first_wave, failed_since>>

\* a failed request that is sent again
MutTransportRetry(t) ==
    /\ pc[t] = "inflight"
    /\ pc' = [pc EXCEPT ![t] = "fetching"]
    /\ UNCHANGED <<clock, ncalls, cached_data, last_update, cache_lock,
                   current_time, posts, post_time, result, first_wave,
                   failed_since>>

\* lines 61-62 raise: transport error, timeout or non-2xx status
TransportFail(t) ==
    /\ pc[t] = "inflight"
    /\ FetchFailed(t, RequestFailed)
    /\ UNCHANGED <<clock, ncalls, posts, first_wave>>

\* line 157: the assembled output becomes the cached entry
StoreData(t, output) ==
    /\ cached_data' = output
    /\ result' = [result EXCEPT ![t] = output]
    /\ pc' = [pc EXCEPT ![t] = "storing"]
    /\ post_time' = [post_time EXCEPT ![t] = 0]
    /\ UNCHANGED <<last_update, cache_lock, current_time, failed_since>>

\* a 2xx response arrives and is parsed and assembled; the output is
\* assigned to cached_data, or the exception is raised
Respond(t, body) ==
    /\ pc[t] = "inflight"
    /\ LET o == FetchOutcome(body, clock)
       IN  IF o.ok THEN StoreData(t, o.val) ELSE FetchFailed(t, o.err)
    /\ UNCHANGED <<clock, ncalls, posts, first_wave>>

\* lines 158-159: the timestamp is assigned, the output returned and
\* cache_lock released
StoreTime(t) ==
    /\ pc[t] = "storing"
    /\ last_update' = current_time[t]
    /\ cache_lock' = NoLock
    /\ failed_since' = FALSE
    /\ Return(t, Ok(result[t]))
    /\ UNCHANGED <<clock, ncalls, cached_data, posts, first_wave>>

\* time passes (up to MaxClock); a pending request ends within its timeout
Tick(d) ==
    /\ clock + d <= MaxClock
    /\ \A t \in Threads :
          pc[t] = "inflight" => clock + d - post_time[t] <= REQUEST_TIMEOUT
    /\ clock' = clock + d
    /\ UNCHANGED <<ncalls, cached_data, last_update, cache_lock, pc,
                   current_time, posts, post_time, result, first_wave,
                   failed_since>>

Next ==
    \/ \E t \in Threads : Call(t)
    \/ \E t \in Threads : CacheHit(t)
    \/ \E t \in Threads : CacheMiss(t)
    \/ \E t \in Threads : LoadConfigFail(t)
    \/ \E t \in Threads : Post(t)
    \/ \E t \in Threads : TransportFail(t)
    \/ \E t \in Threads, body \in UpstreamBodies : Respond(t, body)
    \/ \E t \in Threads : StoreTime(t)
    \/ \E d \in TickSteps : Tick(d)

Spec == Init /\ [][Next]_vars

\* the 2xx bodies of the specification with scheduling: one that is stored
\* and one that fails
LiveBodies == {BodyA, BodyText}
\* ... and its one step of time
LiveTicks == {REQUEST_TIMEOUT}

NextLive ==
    \/ \E t \in Threads : Call(t)
    \/ \E t \in Threads : CacheHit(t)
    \/ \E t \in Threads : CacheMiss(t)
    \/ \E t \in Threads : LoadConfigFail(t)
    \/ \E t \in Threads : Post(t)
    \/ \E t \in Threads : TransportFail(t)
    \/ \E t \in Threads, body \in LiveBodies : Respond(t, body)
    \/ \E t \in Threads : StoreTime(t)
    \/ \E d \in LiveTicks : Tick(d)

\* the concurrent callers with their scheduling: a thread that has
\* cache_lock goes on (the configuration loads or fails, the request is
\* sent, the entry is stored), every upstream call ends in a response, an
\* error or the timeout, and cache_lock is granted fairly to the threads
\* waiting for it
SpecLive ==
    /\ Init
    /\ [][NextLive]_vars
    /\ \A t \in Threads :
          /\ WF_vars(LoadConfigFail(t) \/ Post(t))
          /\ WF_vars(TransportFail(t)
                        \/ \E body \in LiveBodies : Respond(t, body))
          /\ WF_vars(StoreTime(t))
          /\ SF_vars(CacheHit(t) \/ CacheMiss(t))

\* one request thread serving requests one after another, every upstream body
NextSeq ==
    \/ Call(1)
    \/ CacheHit(1)
    \/ CacheMiss(1)
    \/ LoadConfigFail(1)
    \/ Post(1)
    \/ TransportFail(1)
    \/ \E body \in AllBodies : Respond(1, body)
    \/ StoreTime(1)
    \/ \E d \in TickSteps : Tick(d)

SpecSeq == Init /\ [][NextSeq]_vars

\* the outcome of thread t's finished call, as its handler receives it
Outcome(t) == IF IsError(result[t]) THEN Raise(result[t]) ELSE Ok(result[t])

\* ------------------------------------------------------------ observations
RECURSIVE SumPosts(_)
SumPosts(S) ==
    IF S = {} THEN 0
    ELSE LET t == CHOOSE x \in S : TRUE IN posts[t] + SumPosts(S \ {t})

\* thread t leaves get_vps_data served from the cache, without a fetch
ReturnsFromCache(t) == pc[t] = "waiting" /\ pc'[t] = "done"
\* thread t leaves get_vps_data after a fetch attempt
ReturnsFromFetch(t) ==
    pc[t] \in {"fetching", "inflight", "storing"} /\ pc'[t] = "done"
\* thread t's fetch attempt ends: it raises, or its output is complete
EndsFetch(t) ==
    pc[t] \in {"fetching", "inflight"} /\ pc'[t] \in {"done", "storing"}

\* every thread's call began before any call returned, and all have returned
FirstWaveDone == \A t \in Threads : pc[t] = "done" /\ first_wave[t]

\* ---------------------------------------------------------------------- C1
\* C1: N >= 2 callers that invoke get_vps_data concurrently on an empty cache
\* cause exactly one upstream call and all receive the same result, the same
\* snapshot or the same error.  Stated for the runs in which the
\* configuration loads, so that every fetch reaches upstream.
C1_OneCallSameResult ==
    (FirstWaveDone /\ \A t \in Threads : result[t] # Wrapped(ConfigFailed)) =>
        /\ SumPosts(Threads) = 1
        /\ \A t, u \in Threads : result[t] = result[u]

\* ---------------------------------------------------------------------- C2
\* C2: a call made less than 60 seconds after a successful fetch, with no
\* failed fetch in between, is served that fetch's snapshot and does not go
\* on to fetch.  The fetch is timed by its payload's last_update, and the
\* call reads the clock strictly later.
C2_FreshWithinWindow ==
    [][\A t \in Threads :
          (/\ IsSnapshot(cached_data)
           /\ ~failed_since
           /\ current_time[t] > cached_data.last_update
           /\ current_time[t] - cached_data.last_update < CACHE_DURATION
           /\ pc[t] = "waiting"
           /\ pc'[t] # "waiting")
          => /\ ReturnsFromCache(t)
             /\ result'[t] = cached_data
             /\ posts'[t] = 0]_vars

\* ---------------------------------------------------------------------- C3
\* C3: when a fetch fails, for whatever reason, the caller gets the error and
\* the cached snapshot and its timestamp are what they were before the call.
C3_FailureLeavesCache ==
    [][\A t \in Threads :
          ReturnsFromFetch(t) =>
              \/ /\ IsError(result'[t])
                 /\ cached_data' = cached_data
                 /\ last_update' = last_update
              \/ /\ IsSnapshot(result'[t])
                 /\ cached_data' = result'[t]]_vars

\* a failed refresh has returned its error and the earlier entry is still there
C3_Witness ==
    \E t \in Threads :
        /\ pc[t] = "done"
        /\ IsError(result[t])
        /\ IsSnapshot(cached_data)
        /\ clock - cached_data.last_update >= CACHE_DURATION

\* ---------------------------------------------------------------------- C4
\* C4: whenever get_vps_data returns a snapshot without fetching, an entry
\* exists and fewer than 60 seconds have passed since the entry was fetched
\* at the moment of the return.  The age is taken from the payload's
\* last_update, the latest moment the entry can be said to be fetched at.
C4_NeverServesStale ==
    [][\A t \in Threads :
          ReturnsFromCache(t) =>
              /\ IsSnapshot(cached_data)
              /\ clock - cached_data.last_update < CACHE_DURATION]_vars

\* ---------------------------------------------------------------------- C5
ResourceKinds == {"storage", "bandwidth", "memory"}

\* C5: whenever get_vps_data succeeds, /metrics answers 200 with the gauges
\* of the three resource kinds; only a failed get_vps_data gives the
\* "# ERROR" answer.
C5_MetricsServed ==
    \A t \in Threads :
        (pc[t] = "done" /\ IsSnapshot(result[t])) =>
            LET r == metrics(Outcome(t))
            IN  /\ r.code = 200
                /\ DOMAIN r.body = ResourceKinds

\* ---------------------------------------------------------------------- C6
\* the content is exactly four comma-separated non-empty digit groups
FourNumericGroups(c) ==
    /\ Len(c) = 7
    /\ \A i \in {1, 3, 5, 7} : c[i].k = "d"
    /\ \A i \in {2, 4, 6} : c[i].k = ","
\* a byte count of n units of BytesPerUnit bytes expressed in GB: value / 2^30
InGB(n) == Norm(<<n, BYTES_TO_GB \div BytesPerUnit>>)
\* the record of a payload for the block of one resource type
RecordOf(snapshot, tag) == snapshot[resource_names[tag]]

\* C6: for every resource kind and byte triple, each of the record's total,
\* used and free is that byte value divided by 2^30, whatever unit each of
\* the three falls in.
C6_EachValueInGB ==
    [][\A t \in Threads, body \in UpstreamBodies :
          (Respond(t, body) /\ IsSnapshot(result'[t])) =>
              \A i \in 1..Len(body) :
                  (body[i].tag \in Range(RESOURCE_TYPES)
                      /\ FourNumericGroups(body[i].content)) =>
                      LET c == body[i].content
                          r == RecordOf(result'[t], body[i].tag)
                      IN  /\ r.total = InGB(c[1].n)
                          /\ r.used = InGB(c[3].n)
                          /\ r.free = InGB(c[5].n)]_vars

\* ---------------------------------------------------------------------- C7
RecordShape(r) == DOMAIN r = {"total", "used", "free", "usage"}
SnapshotShape(x) ==
    /\ DOMAIN x = {"hostname", "ip", "last_update", "resources"}
    /\ DOMAIN x.resources = ResourceKinds
    /\ \A k \in ResourceKinds : RecordShape(x.resources[k])

\* C7: every snapshot a successful get_vps_data returns, and every cached
\* entry, has the fields hostname, ip, last_update and resources, resources
\* mapping exactly storage, bandwidth and memory to their records.
C7_SnapshotShape ==
    /\ \A t \in Threads :
          (pc[t] = "done" /\ ~IsError(result[t])) => SnapshotShape(result[t])
    /\ cached_data # None => SnapshotShape(cached_data)

\* ---------------------------------------------------------------------- C8
InFlight == {t \in Threads : pc[t] = "inflight"}
InCriticalSection ==
    {t \in Threads : pc[t] \in {"fetching", "inflight", "storing"}}

\* C8: at most one upstream call is in flight at any time, and at most one
\* thread is between the freshness check and the cache replacement.
C8_OneInFlight ==
    /\ Cardinality(InFlight) <= 1
    /\ Cardinality(InCriticalSection) <= 1
    /\ \A t \in InCriticalSection : cache_lock = t

\* a caller has arrived while another caller's upstream call is in progress
C8_Witness ==
    \E t, u \in Threads : pc[t] = "inflight" /\ pc[u] = "waiting"

\* ---------------------------------------------------------------------- C9
\* thread t's call was made 61 or more seconds after the last successful fetch
MadeAfterWindow(t) ==
    /\ IsSnapshot(cached_data)
    /\ current_time[t] - cached_data.last_update >= CACHE_DURATION + 1

\* C9 as claimed: a call made 61 or more seconds after the last successful
\* fetch is not served the old snapshot and makes exactly one upstream call.
C9_ExactlyOneCall ==
    [][\A t \in Threads :
          MadeAfterWindow(t) =>
              /\ ~ReturnsFromCache(t)
              /\ EndsFetch(t) => posts'[t] = 1]_vars

\* C9 as amended: a call made 61 or more seconds after the last successful
\* fetch is never served from the cache; it attempts a refresh, which makes
\* one upstream call, or none when loading the configuration fails, and then
\* the caller gets that error.
C9_Refresh ==
    [][\A t \in Threads :
          MadeAfterWindow(t) =>
              /\ ~ReturnsFromCache(t)
              /\ EndsFetch(t) =>
                    \/ posts'[t] = 1
                    \/ posts'[t] = 0 /\ result'[t] = Wrapped(ConfigFailed)]_vars

\* such a call has sent its one request
C9_Witness ==
    \E t \in Threads :
        /\ pc[t] = "inflight"
        /\ MadeAfterWindow(t)
        /\ posts[t] = 1

\* --------------------------------------------------------------------- C10
\* a block tagged as a resource whose content is not four numeric groups
Malformed(body) ==
    \E i \in 1..Len(body) :
        /\ body[i].tag \in Range(RESOURCE_TYPES)
        /\ ~FourNumericGroups(body[i].content)

\* C10: a body with a malformed resource block fails the whole fetch: no
\* snapshot is returned and the cache entry is not replaced.
C10_MalformedAborts ==
    [][\A t \in Threads, body \in AllBodies :
          (Respond(t, body) /\ Malformed(body)) =>
              /\ IsError(result'[t])
              /\ cached_data' = cached_data
              /\ last_update' = last_update]_vars

\* --------------------------------------------------------------------- C11
RequiredTags == Range(INFO_TYPES) \cup Range(RESOURCE_TYPES)
Tags(body) == {body[i].tag : i \in 1..Len(body)}
Recognised(b) == b.tag \in RequiredTags
\* the body without its blocks of other tag names
StripIgnored(body) == SelectSeq(body, Recognised)

\* C11: a fetch whose response lacks any of hostname, ipaddress, hdd, bw and
\* mem, or has no recognised block at all, raises an error, returns no
\* snapshot and leaves the cache entry as it was; blocks of any other tag
\* name do not change the outcome: it is the outcome for the body without
\* them.  (A body with exactly the five tags is its own stripped body.)
C11_RequiredFields ==
    [][\A t \in Threads, body \in AllBodies :
          (Tags(body) # RequiredTags /\ Respond(t, body)) =>
              /\ ~(RequiredTags \subseteq Tags(body)) =>
                    /\ pc'[t] = "done"
                    /\ IsError(result'[t])
                    /\ cached_data' = cached_data
                    /\ last_update' = last_update
              /\ LET r == api_response(StripIgnored(body))
                     o == IF r.ok THEN Assemble(r.val, clock) ELSE r
                 IN  IF o.ok
                     THEN result'[t] = o.val /\ cached_data' = o.val
                     ELSE result'[t] = Wrapped(o.err)]_vars

\* a fetch whose response had no mem block has raised
C11_Witness ==
    \E t \in Threads :
        /\ pc[t] = "done"
        /\ result[t] = Wrapped(KeyError("mem"))
        /\ posts[t] = 1

\* --------------------------------------------------------------------- C12
DivisionByZero == Wrapped(Exc("ZeroDivisionError", "float division by zero"))

\* C12: for every well-formed resource block with total > 0 the record's
\* usage is used / total * 100, whatever the fourth group reports; for
\* total = 0 and used = 0 it is 0.0, and a division by zero is raised only
\* for a block with total = 0 and used # 0.
C12_UsagePercent ==
    [][\A t \in Threads, body \in AllBodies :
          Respond(t, body) =>
              /\ IsSnapshot(result'[t]) =>
                    \A i \in 1..Len(body) :
                        (body[i].tag \in Range(RESOURCE_TYPES)
                            /\ FourNumericGroups(body[i].content)) =>
                            LET c == body[i].content
                                r == RecordOf(result'[t], body[i].tag)
                            IN  /\ c[1].n > 0 =>
                                      r.usage = Norm(<<c[3].n * 100, c[1].n>>)
                                /\ (c[1].n = 0 /\ c[3].n = 0) =>
                                      r.usage = RZero
              /\ result'[t] = DivisionByZero =>
                    \E i \in 1..Len(body) :
                        /\ body[i].tag \in Range(RESOURCE_TYPES)
                        /\ FourNumericGroups(body[i].content)
                        /\ body[i].content[1].n = 0
                        /\ body[i].content[3].n # 0]_vars

\* a snapshot whose storage usage is 99.9 (used 999 GiB of 1000 GiB, the
\* block reporting 50) and whose memory, total 0 and used 0, has usage 0
C12_Witness ==
    \E t \in Threads :
        /\ pc[t] = "done"
        /\ IsSnapshot(result[t])
        /\ result[t].storage.usage = <<999, 10>>
        /\ result[t].memory.usage = RZero

\* --------------------------------------------------------------------- C13
\* the payload as lines 125-155 assemble it, every key present
Assembled(x) ==
    /\ DOMAIN x = {"hostname", "ip", "last_update"} \cup ResourceKinds
    /\ \A k \in ResourceKinds : RecordShape(x[k])
\* thread t evaluates line 106
ReadsCache(t) == pc[t] = "waiting" /\ pc'[t] # "waiting"

\* C13: the cache is empty (with timestamp 0) or holds a fully assembled
\* snapshot; cached_data is assigned only by the lock holder's successful
\* fetch, last_update only by that same thread before it releases the lock,
\* and no thread evaluates the freshness test between the two assignments.
C13_AtomicEntry ==
    [][/\ cached_data = None => last_update = 0
       /\ cached_data # None => Assembled(cached_data)
       /\ \A t \in Threads :
             ReadsCache(t) => \A u \in Threads : pc[u] # "storing"
       /\ cached_data' # cached_data =>
             \E t \in Threads :
                 /\ cache_lock = t /\ cache_lock' = t
                 /\ pc[t] = "inflight" /\ pc'[t] = "storing"
                 /\ Assembled(cached_data')
                 /\ result'[t] = cached_data'
       /\ last_update' # last_update =>
             \E t \in Threads :
                 /\ cache_lock = t
                 /\ pc[t] = "storing"
                 /\ result[t] = cached_data
                 /\ last_update' = current_time[t]
                 /\ cached_data' = cached_data]_vars

\* a caller waits for the lock while the new snapshot is assigned and the
\* timestamp is still the old one
C13_Witness ==
    \E t, u \in Threads :
        /\ pc[t] = "storing"
        /\ pc[u] = "waiting"
        /\ last_update # current_time[t]

\* --------------------------------------------------------------------- C14
\* C14: /status answers a successful get_vps_data with the snapshot and 200
\* and a failed one with {"error": message} and 500; /metrics answers a
\* failed one with the "# ERROR: message" line and 500; on failure neither
\* answers with the cached snapshot.
C14_ErrorsTranslated ==
    \A t \in Threads :
        pc[t] = "done" =>
            LET s == status(Outcome(t))
                m == metrics(Outcome(t))
            IN  IF IsError(result[t])
                THEN /\ s = [code |-> 500, body |-> [error |-> result[t].msg]]
                     /\ m = [code |-> 500,
                             body |-> <<"# ERROR: ", result[t].msg>>]
                     /\ s.body # cached_data
                     /\ m.body # cached_data
                ELSE s = [code |-> 200, body |-> result[t]]

\* a refresh has failed while an earlier snapshot is cached, and both
\* handlers answer 500
C14_Witness ==
    \E t \in Threads :
        /\ pc[t] = "done"
        /\ IsError(result[t])
        /\ IsSnapshot(cached_data)
        /\ status(Outcome(t)).code = 500
        /\ metrics(Outcome(t)).code = 500

\* --------------------------------------------------------------------- C15
\* the unit and the round trip of convert_bytes_to_readable for a byte count
\* of n units
NormalizeRoundTrip(n) ==
    LET r == convert_bytes_to_readable(<<n, 1>>)
    IN  /\ r.unit \in {"GB", "TB"}
        /\ r.unit = "GB" <=> n < GiB(TB_THRESHOLD)
        /\ RMul(r.display, IF r.unit = "TB" THEN GB_TO_TB ELSE 1) = InGB(n)

\* C15: for every byte value v of a parsed block, convert_bytes_to_readable
\* reports GB exactly when v / 2^30 < 1000 and TB otherwise, and its result
\* multiplied by 1024 when the unit is TB is v / 2^30; for the total, whose
\* unit the assembly folds by, the snapshot carries that value.
C15_NormalizeRoundTrip ==
    [][\A t \in Threads, body \in AllBodies :
          Respond(t, body) =>
              \A i \in 1..Len(body) :
                  (body[i].tag \in Range(RESOURCE_TYPES)
                      /\ FourNumericGroups(body[i].content)) =>
                      LET c == body[i].content
                      IN  /\ \A j \in {1, 3, 5} : NormalizeRoundTrip(c[j].n)
                          /\ IsSnapshot(result'[t]) =>
                                RecordOf(result'[t], body[i].tag).total
                                    = InGB(c[1].n)]_vars

\* a snapshot whose storage total, 1000 GiB, went through the unit TB
C15_Witness ==
    \E t \in Threads :
        /\ pc[t] = "done"
        /\ IsSnapshot(result[t])
        /\ result[t].storage.total = <<TB_THRESHOLD, 1>>
        /\ convert_bytes_to_readable(<<GiB(TB_THRESHOLD), 1>>).unit = "TB"

\* --------------------------------------------------------------------- C16
\* C16: one get_vps_data call sends at most one request; a call served from
\* the cache sends none; and when its request ends, the call either has its
\* output or returns the error at once, with that one request sent.
C16_NoRetries ==
    [][\A t \in Threads :
          /\ posts'[t] <= 1
          /\ ReturnsFromCache(t) => posts'[t] = 0
          /\ (pc[t] = "inflight" /\ pc'[t] # "inflight") =>
                /\ posts'[t] = 1
                /\ \/ pc'[t] = "storing" /\ IsSnapshot(result'[t])
                   \/ pc'[t] = "done" /\ IsError(result'[t])]_vars

\* a call whose one request failed has returned the error
C16_Witness ==
    \E t \in Threads :
        /\ pc[t] = "done"
        /\ result[t] = Wrapped(RequestFailed)
        /\ posts[t] = 1

\* --------------------------------------------------------------------- C17
\* the kind of an exception: its class
KindOf(e) == e.type

\* C17: a failure reaches the caller of get_vps_data as the kind it
\* originated as: the exception raised for a malformed or incomplete
\* response keeps its kind, and that kind is not the one a transport failure
\* or a configuration failure reaches the caller as.
C17_KindPreserved ==
    [][\A t \in Threads, body \in UpstreamBodies :
          (Respond(t, body) /\ IsError(result'[t])) =>
              /\ KindOf(result'[t]) = KindOf(FetchOutcome(body, clock).err)
              /\ KindOf(result'[t]) # KindOf(Wrapped(RequestFailed))
              /\ KindOf(result'[t]) # KindOf(Wrapped(ConfigFailed))]_vars

\* --------------------------------------------------------------------- C18
\* C18: last_update never decreases; a fetch that replaces an existing entry
\* belongs to a call whose clock reading is at least 60 seconds after the
\* timestamp of the entry it replaces, and that reading is the timestamp it
\* writes.
C18_TimestampMonotone ==
    [][/\ last_update' >= last_update
       /\ \A t \in Threads :
             /\ (pc[t] = "inflight" /\ pc'[t] = "storing"
                    /\ IsSnapshot(cached_data)) =>
                   current_time[t] - last_update >= CACHE_DURATION
             /\ (pc[t] = "storing" /\ pc'[t] = "done") =>
                   last_update' = current_time[t]]_vars

\* an entry stamped after time 0 is being replaced by a call made at least
\* 60 seconds after that stamp
C18_Witness ==
    \E t \in Threads :
        /\ pc[t] = "storing"
        /\ last_update > 0
        /\ current_time[t] - last_update >= CACHE_DURATION

\* --------------------------------------------------------------------- C19
\* C19: cache_lock is held only by a thread inside the critical section of
\* get_vps_data, never by one that has returned or raised; and every call
\* that has started eventually returns a snapshot or an error.
C19_LockReleased ==
    /\ [](\A t \in Threads :
             cache_lock = t => pc[t] \in {"fetching", "inflight", "storing"})
    /\ \A t \in Threads :
          (pc[t] \in {"waiting", "fetching", "inflight", "storing"})
              ~> (pc[t] = "done" /\ (IsSnapshot(result[t]) \/ IsError(result[t])))

\* two callers started together; one's refill has failed and the other,
\* which waited behind it, now has the lock
C19_Witness ==
    \E t, u \in Threads :
        /\ first_wave[t] /\ first_wave[u]
        /\ pc[t] = "done" /\ IsError(result[t])
        /\ pc[u] \in {"fetching", "inflight"} /\ cache_lock = u

\* --------------------------------------------------------------------- C20
\* C20: a call served from the cache returns the cached snapshot and leaves
\* cached_data and last_update as they were; and a call whose clock reading
\* is 60 seconds or more after last_update is not served from the cache,
\* whatever hits came before.
C20_HitChangesNothing ==
    [][\A t \in Threads :
          /\ ReturnsFromCache(t) =>
                /\ result'[t] = cached_data
                /\ cached_data' = cached_data
                /\ last_update' = last_update
          /\ (ReadsCache(t) /\ current_time[t] - last_update >= CACHE_DURATION)
                => ~ReturnsFromCache(t)]_vars

\* a call made after the entry was stamped has been served from the cache
C20_Witness ==
    \E t \in Threads :
        /\ pc[t] = "done"
        /\ posts[t] = 0
        /\ IsSnapshot(result[t])
        /\ result[t] = cached_data
        /\ clock > last_update

====
